---------------------------- MODULE Spec2Model ----------------------------
(* A model of leveldb's byte-range view (Slice), operation result        *)
(* (Status) and integer/string codec (util/coding.h).                     *)
(*                                                                        *)
(* Memory is a sequence of bytes (0..255); a pointer is a 1-based index   *)
(* into it, so that p + n is index arithmetic and "one past the end" is   *)
(* Len(mem) + 1.  An unsigned integer of width w is the set of its set    *)
(* bit positions, a subset of 0..w-1: | is union, & is intersection and   *)
(* a shift moves the positions and drops those that leave the width, so   *)
(* uint32_t and uint64_t keep their exact widths.                         *)
EXTENDS Integers, Sequences, FiniteSets, TLC

VARIABLES
  mem,        \* the bytes of the caller's buffer
  pc,         \* the operation that produced the current state
  x,          \* the integer handed to the encoder
  str,        \* the byte string handed to PutLengthPrefixedSlice
  rng,        \* [p, limit]: the range handed to the pointer decoders
  ret,        \* the pointer the decoder returned
  value,      \* the caller's integer the decoder stores into
  reads,      \* the addresses the decoder read
  fb,         \* [ptr, value, reads] of GetVarint32PtrFallback called directly
  input,      \* Slice: the cursor view
  input0,     \* the cursor view before the call (or as constructed)
  result,     \* Slice: out-parameter of GetLengthPrefixedSlice
  ok,         \* boolean returned by the Get... routines
  little,     \* port::kLittleEndian of the build
  removed,    \* sum of the n's of the remove_prefix calls made so far
  a, b, c,    \* Slices compared
  cmp,        \* the results of the comparisons
  st,         \* Status objects: object -> state_ (or Dead)
  heap,       \* address -> payload of the live new[] arrays
  fault,      \* memory faults that have happened
  last,       \* the previous assignment: what was assigned, and b before it
  from        \* the operation that filled mem

vars == << mem, pc, x, str, rng, ret, value, reads, fb, input, input0, result, ok, little,
           removed, a, b, c, cmp, st, heap, fault, last, from >>

(* ------------------------------ bounds ------------------------------- *)
\* patterns of set bits below the top bit of an encoder input
MaxPat == 3
\* length of a caller-supplied byte buffer handed to the decoders
MaxBufLen == 6
\* length of a run of continuation bytes handed to the decoders
MaxRun == 11
\* first address of a range or view handed to the decoders
MaxStart == 2
\* length of a string handed to PutLengthPrefixedSlice
MaxStrLen == 130
\* strides of the byte patterns filling such a string
MaxStrPat == 2
\* length of a second string appended after the first
MaxTailLen == 1
\* length of the storage the compared and trimmed Slices refer to
StoreLen == 6
\* number of Status objects
NumObj == 2

(* ------------------------- unsigned integers ------------------------- *)
RECURSIVE Pow2Of(_)
Pow2Of(n) == IF n = 0 THEN 1 ELSE 2 * Pow2Of(n - 1)
Pow2Table == [n \in 0..30 |-> Pow2Of(n)]
Pow2(n) == Pow2Table[n]

\* an unsigned char widened to an unsigned integer
ByteBits == [byte \in 0..255 |-> {i \in 0..7 : (byte \div Pow2(i)) % 2 = 1}]
FromByte(byte) == ByteBits[byte]

\* the number whose set bits are S, for S within 0..30
RECURSIVE SumPow2(_)
SumPow2(S) == IF S = {} THEN 0
              ELSE LET i == CHOOSE j \in S : TRUE IN Pow2(i) + SumPow2(S \ {i})

\* the low 8 bits of v as an unsigned char
ToByte(v) == SumPow2({i \in v : i < 8})

\* v << k and v >> k at width w
Shl(v, k, w) == {i + k : i \in {j \in v : j + k < w}}
Shr(v, k) == {i - k : i \in {j \in v : j >= k}}
BitOr(v, u) == v \cup u
BitAnd(v, u) == v \cap u

\* the constant 128 (continuation bit) and the mask 127
B128 == {7}
Mask127 == 0..6

\* v < 128
Below128(v) == \A i \in v : i < 7

(* ------------------------------ memory ------------------------------- *)
NULL == 0

\* *(unsigned char*)p
MemAt(m, p) == IF p \in 1..Len(m) THEN m[p] ELSE 255

\* the n bytes at p
Bytes(m, p, n) == [i \in 1..n |-> MemAt(m, p + i - 1)]

(* ------------------------------ varint ------------------------------- *)
\* EncodeVarint32 / EncodeVarint64: the bytes written at dst; the pointer
\* returned is dst + Len of them.
RECURSIVE EncodeVarintBytes(_)
EncodeVarintBytes(v) ==
  IF Below128(v) THEN << ToByte(v) >>
  ELSE << ToByte(BitOr(BitAnd(v, Mask127), B128)) >> \o EncodeVarintBytes(Shr(v, 7))

EncodeVarint32(v) == EncodeVarintBytes(v)
EncodeVarint64(v) == EncodeVarintBytes(v)

\* the loop of the general decoder at width w: at most (maxShift / 7) + 1 bytes
RECURSIVE VarintLoop(_, _, _, _, _, _, _, _, _)
VarintLoop(m, p, limit, shift, maxShift, w, res, rd, v0) ==
  IF shift <= maxShift /\ p < limit
  THEN LET byte == FromByte(MemAt(m, p)) IN
       IF BitAnd(byte, B128) # {}
       THEN VarintLoop(m, p + 1, limit, shift + 7, maxShift, w,
                       BitOr(res, Shl(BitAnd(byte, Mask127), shift, w)),
                       rd \cup {p}, v0)
       ELSE [ptr |-> p + 1, value |-> BitOr(res, Shl(byte, shift, w)),
             reads |-> rd \cup {p}]
  ELSE [ptr |-> NULL, value |-> v0, reads |-> rd]

\* a mutant: a fifth byte whose payload does not fit in 32 bits is rejected
GetVarint32PtrFallback_Strict(m, p, limit, v0) ==
  LET r == VarintLoop(m, p, limit, 0, 28, 32, {}, {}, v0) IN
  IF r.ptr = p + 5 /\ MemAt(m, p + 4) > 15
  THEN [r EXCEPT !.ptr = NULL, !.value = v0]
  ELSE r

GetVarint32PtrFallback(m, p, limit, v0) ==
  VarintLoop(m, p, limit, 0, 28, 32, {}, {}, v0)

GetVarint64Ptr(m, p, limit, v0) ==
  VarintLoop(m, p, limit, 0, 63, 64, {}, {}, v0)

\* a mutant: the single-byte case is taken without asking whether p < limit
GetVarint32Ptr_NoLimitCheck(m, p, limit, v0) ==
  LET res == FromByte(MemAt(m, p)) IN
  IF BitAnd(res, B128) = {}
  THEN [ptr |-> p + 1, value |-> res, reads |-> {p}]
  ELSE GetVarint32PtrFallback(m, p, limit, v0)

\* a mutant: the single-byte case returns p, not p + 1
GetVarint32Ptr_NoAdvance(m, p, limit, v0) ==
  IF p < limit /\ BitAnd(FromByte(MemAt(m, p)), B128) = {}
  THEN [ptr |-> p, value |-> FromByte(MemAt(m, p)), reads |-> {p}]
  ELSE GetVarint32PtrFallback(m, p, limit, v0)

\* a mutant: the single-byte case returns without storing the value
GetVarint32Ptr_NoStore(m, p, limit, v0) ==
  IF p < limit /\ BitAnd(FromByte(MemAt(m, p)), B128) = {}
  THEN [ptr |-> p + 1, value |-> v0, reads |-> {p}]
  ELSE GetVarint32PtrFallback(m, p, limit, v0)

\* a mutant: the single-byte case tests the payload bits (result & 127), so
\* that the byte 128 is taken for a whole varint
GetVarint32Ptr_WrongMask(m, p, limit, v0) ==
  IF p < limit /\ BitAnd(FromByte(MemAt(m, p)), Mask127) = {}
  THEN [ptr |-> p + 1, value |-> FromByte(MemAt(m, p)), reads |-> {p}]
  ELSE GetVarint32PtrFallback(m, p, limit, v0)

GetVarint32Ptr(m, p, limit, v0) ==
  IF p < limit /\ BitAnd(FromByte(MemAt(m, p)), B128) = {}
  THEN [ptr |-> p + 1, value |-> FromByte(MemAt(m, p)), reads |-> {p}]
  ELSE LET r == GetVarint32PtrFallback(m, p, limit, v0) IN
       [r EXCEPT !.reads = r.reads \cup (IF p < limit THEN {p} ELSE {})]


\* VarintLength
RECURSIVE VarintLength(_)
VarintLength(v) == IF Below128(v) THEN 1 ELSE 1 + VarintLength(Shr(v, 7))

(* ------------------------------- Slice ------------------------------- *)
\* the address of the string literal "" of Slice() and clear()
EmptyStr == -1

\* Slice(const char* d, size_t n)
SliceOf(d, n) == [data |-> d, size |-> n]

\* Slice()
SliceEmpty == SliceOf(EmptyStr, 0)

\* clear()
SliceClear(s) == [s EXCEPT !.data = EmptyStr, !.size = 0]

\* a mutant: the length shrinks and the pointer stays
RemovePrefix_NoAdvance(s, n) == [s EXCEPT !.size = s.size - n]

\* a mutant: the pointer advances and the length stays
RemovePrefix_NoShrink(s, n) == [s EXCEPT !.data = s.data + n]

\* remove_prefix(n), past its assert(n <= size())
RemovePrefix(s, n) == [s EXCEPT !.data = s.data + n, !.size = s.size - n]

\* the bytes a Slice refers to
SliceBytes(m, s) == Bytes(m, s.data, s.size)

\* memcmp over unsigned chars: the difference at the first position where
\* the two ranges differ, 0 when they do not
Memcmp(m, p, q, n) ==
  LET D == {i \in 0..(n - 1) : MemAt(m, p + i) # MemAt(m, q + i)} IN
  IF D = {} THEN 0
  ELSE LET i == CHOOSE j \in D : \A k \in D : j <= k IN
       MemAt(m, p + i) - MemAt(m, q + i)

\* a mutant: the tie on the shared prefix is not broken by length
SliceCompare_NoLength(m, s, t) ==
  Memcmp(m, s.data, t.data, IF s.size < t.size THEN s.size ELSE t.size)

\* Slice::compare
SliceCompare(m, s, t) ==
  LET min_len == IF s.size < t.size THEN s.size ELSE t.size
      r == Memcmp(m, s.data, t.data, min_len) IN
  IF r = 0
  THEN (IF s.size < t.size THEN -1 ELSE IF s.size > t.size THEN 1 ELSE r)
  ELSE r

\* operator==
SliceEq(m, s, t) == s.size = t.size /\ Memcmp(m, s.data, t.data, s.size) = 0

\* operator!=
SliceNe(m, s, t) == ~SliceEq(m, s, t)

(* -------------------------- cursor decoders -------------------------- *)
\* GetVarint32 / GetVarint64 over the decoder's result q
GetVarintFrom(s, q) ==
  IF q.ptr = NULL
  THEN [ok |-> FALSE, input |-> s, value |-> q.value]
  ELSE [ok |-> TRUE, input |-> SliceOf(q.ptr, (s.data + s.size) - q.ptr),
        value |-> q.value]

GetVarint32(m, s, v0) ==
  GetVarintFrom(s, GetVarint32Ptr(m, s.data, s.data + s.size, v0))

GetVarint64(m, s, v0) ==
  GetVarintFrom(s, GetVarint64Ptr(m, s.data, s.data + s.size, v0))

(* ---------------------- length-prefixed strings ---------------------- *)
\* a size_t below 2^31 converted to uint32_t
FromNat(n) == {i \in 0..30 : (n \div Pow2(i)) % 2 = 1}

\* size_t n >= uint32_t v
SizeAtLeast(n, v) == (\A i \in v : i < 31) /\ n >= SumPow2(v)

\* PutLengthPrefixedSlice: the bytes appended to dst
PutLengthPrefixedSlice(bytes) == EncodeVarint32(FromNat(Len(bytes))) \o bytes

\* GetLengthPrefixedSlice(input, result)
GetLengthPrefixedSlice(m, s, r0, v0) ==
  LET g == GetVarint32(m, s, v0) IN
  IF g.ok /\ SizeAtLeast(g.input.size, g.value)
  THEN [ok |-> TRUE, input |-> RemovePrefix(g.input, SumPow2(g.value)),
        result |-> SliceOf(g.input.data, SumPow2(g.value))]
  ELSE [ok |-> FALSE, input |-> g.input, result |-> r0]

(* --------------------------- fixed width ----------------------------- *)
\* EncodeFixed32 / EncodeFixed64: the n bytes written, least significant first
EncodeFixed(v, n) == [k \in 1..n |-> ToByte(Shr(v, 8 * (k - 1)))]
EncodeFixed32(v) == EncodeFixed(v, 4)
EncodeFixed64(v) == EncodeFixed(v, 8)

\* memcpy(&result, ptr, sizeof(result)) on a host of the given byte order:
\* the byte at the lowest address is the least significant one on a
\* little-endian host and the most significant one on a big-endian host
RawLoad(bytes, hostLittle) ==
  LET n == Len(bytes) IN
  UNION {Shl(FromByte(bytes[k]),
             IF hostLittle THEN 8 * (k - 1) ELSE 8 * (n - k), 8 * n) : k \in 1..n}

\* a mutant: the third byte is shifted like the second
DecodeFixed32_BadShift(m, p, le) ==
  IF le
  THEN RawLoad(Bytes(m, p, 4), le)
  ELSE BitOr(BitOr(FromByte(MemAt(m, p)), Shl(FromByte(MemAt(m, p + 1)), 8, 32)),
             BitOr(Shl(FromByte(MemAt(m, p + 2)), 8, 32),
                   Shl(FromByte(MemAt(m, p + 3)), 24, 32)))

\* DecodeFixed32; le is port::kLittleEndian, true exactly on a little-endian host
DecodeFixed32(m, p, le) ==
  IF le
  THEN RawLoad(Bytes(m, p, 4), le)
  ELSE BitOr(BitOr(FromByte(MemAt(m, p)), Shl(FromByte(MemAt(m, p + 1)), 8, 32)),
             BitOr(Shl(FromByte(MemAt(m, p + 2)), 16, 32),
                   Shl(FromByte(MemAt(m, p + 3)), 24, 32)))

\* DecodeFixed64
DecodeFixed64(m, p, le) ==
  IF le
  THEN RawLoad(Bytes(m, p, 8), le)
  ELSE LET lo == DecodeFixed32(m, p, le)
           hi == DecodeFixed32(m, p + 4, le) IN
       BitOr(Shl(hi, 32, 64), lo)

(* ====================== the varint state machine ====================== *)
\* encoder inputs of k significant bits: the top bit alone (pat = 0), or the
\* top bit and every pat-th bit below it (pat = 1: all ones)
Val(k, pat) ==
  IF k = 0 THEN {}
  ELSE {k - 1} \cup (IF pat = 0 THEN {} ELSE {i \in 0..(k - 1) : i % pat = 0})
Vals(w) == {Val(k, pat) : k \in 0..w, pat \in 0..MaxPat}

\* bytes of caller-supplied buffers: final bytes with one and with all
\* payload bits set, continuation bytes with none and with all of them set
ByteSet == {1, 127, 128, 255}
RawBufs == UNION {[1..n -> ByteSet] : n \in 0..MaxBufLen}
ContRuns == {[i \in 1..n |-> 255] : n \in (MaxBufLen + 1)..MaxRun}

\* what the caller's integer holds before a decoder is called
Garbage == {0, 3, 9, 31}

NoResult == [ptr |-> NULL, value |-> Garbage, reads |-> {}]

CodecIdle ==
  /\ mem = << >> /\ x = {} /\ str = << >> /\ from = "none"
  /\ rng = [p |-> 1, limit |-> 1]
  /\ ret = NULL /\ value = Garbage /\ reads = {} /\ fb = NoResult
  /\ input = SliceEmpty /\ input0 = SliceEmpty /\ result = SliceEmpty
  /\ ok = FALSE /\ removed = 0
SliceIdle == a = SliceEmpty /\ b = SliceEmpty /\ c = SliceEmpty /\ cmp = << >>
StatusIdle == st = << >> /\ heap = << >> /\ fault = {} /\ last = << >>

codecVars == << mem, x, str, from, rng, ret, value, reads, fb, input, input0,
                result, ok, removed >>
sliceVars == << a, b, c, cmp >>
statusVars == << st, heap, fault, last >>

InitVarint == pc = "start" /\ little = TRUE /\ CodecIdle /\ SliceIdle /\ StatusIdle

\* EncodeVarint32(dst, v) into an empty buffer
DoEncodeVarint32 ==
  /\ pc = "start"
  /\ \E v \in Vals(32) :
       mem' = EncodeVarint32(v) /\ x' = v /\ from' = "enc32" /\ pc' = "filled"
  /\ UNCHANGED << str, rng, ret, value, reads, fb, input, input0, result, ok,
                  removed, little, sliceVars, statusVars >>

\* EncodeVarint64(dst, v) into an empty buffer
DoEncodeVarint64 ==
  /\ pc = "start"
  /\ \E v \in Vals(64) :
       mem' = EncodeVarint64(v) /\ x' = v /\ from' = "enc64" /\ pc' = "filled"
  /\ UNCHANGED << str, rng, ret, value, reads, fb, input, input0, result, ok,
                  removed, little, sliceVars, statusVars >>

\* the caller supplies the bytes
DoFill ==
  /\ pc = "start"
  /\ \E bytes \in RawBufs \cup ContRuns :
       mem' = bytes /\ from' = "raw" /\ pc' = "filled"
  /\ UNCHANGED << x, str, rng, ret, value, reads, fb, input, input0, result, ok,
                  removed, little, sliceVars, statusVars >>

\* GetVarint32Ptr(p, limit, &value), and the fallback on the same range
DoGetVarint32Ptr ==
  /\ pc = "filled"
  /\ \E p \in 1..MaxStart : \E limit \in p..(Len(mem) + 1) :
       LET r == GetVarint32Ptr(mem, p, limit, value) IN
         /\ ret' = r.ptr /\ value' = r.value /\ reads' = r.reads
         /\ fb' = GetVarint32PtrFallback(mem, p, limit, value)
         /\ rng' = [p |-> p, limit |-> limit]
  /\ pc' = "ptr32"
  /\ UNCHANGED << mem, x, str, from, input, input0, result, ok, removed, little,
                  sliceVars, statusVars >>

\* GetVarint64Ptr(p, limit, &value)
DoGetVarint64Ptr ==
  /\ pc = "filled"
  /\ \E p \in 1..MaxStart : \E limit \in p..(Len(mem) + 1) :
       LET r == GetVarint64Ptr(mem, p, limit, value) IN
         /\ ret' = r.ptr /\ value' = r.value /\ reads' = r.reads
         /\ rng' = [p |-> p, limit |-> limit]
  /\ pc' = "ptr64"
  /\ UNCHANGED << mem, x, str, from, fb, input, input0, result, ok, removed,
                  little, sliceVars, statusVars >>

\* GetVarint32(&input, &value) on a view of n bytes at d
DoGetVarint32 ==
  /\ pc = "filled"
  /\ \E d \in 1..MaxStart : \E n \in 0..(Len(mem) + 1 - d) :
       LET g == GetVarint32(mem, SliceOf(d, n), value) IN
         /\ ok' = g.ok /\ input' = g.input /\ value' = g.value
         /\ input0' = SliceOf(d, n)
  /\ pc' = "get32"
  /\ UNCHANGED << mem, x, str, from, rng, ret, reads, fb, result, removed,
                  little, sliceVars, statusVars >>

\* GetVarint64(&input, &value) on a view of n bytes at d
DoGetVarint64 ==
  /\ pc = "filled"
  /\ \E d \in 1..MaxStart : \E n \in 0..(Len(mem) + 1 - d) :
       LET g == GetVarint64(mem, SliceOf(d, n), value) IN
         /\ ok' = g.ok /\ input' = g.input /\ value' = g.value
         /\ input0' = SliceOf(d, n)
  /\ pc' = "get64"
  /\ UNCHANGED << mem, x, str, from, rng, ret, reads, fb, result, removed,
                  little, sliceVars, statusVars >>

NextVarint ==
  \/ DoEncodeVarint32
  \/ DoEncodeVarint64
  \/ DoFill
  \/ DoGetVarint32Ptr
  \/ DoGetVarint64Ptr
  \/ DoGetVarint32
  \/ DoGetVarint64

SpecVarint == InitVarint /\ [][NextVarint]_vars


(* ----------------------- claims on the varints ----------------------- *)
WholeBuffer == [p |-> 1, limit |-> Len(mem) + 1]

\* the addresses of the bytes with the continuation bit clear in [p, limit)
Finals(p, limit) == {i \in p..(limit - 1) : mem[i] < 128}
Least(S) == CHOOSE i \in S : \A j \in S : i <= j

\* C1: decoding the bytes written by EncodeVarint32(x) with GetVarint32Ptr
\* over exactly those bytes stores x and returns the pointer just past the
\* last encoded byte; the same for EncodeVarint64 and GetVarint64Ptr.
C1_RoundTrip ==
  /\ (pc = "ptr32" /\ from = "enc32" /\ rng = WholeBuffer)
       => (value = x /\ ret = Len(mem) + 1)
  /\ (pc = "ptr64" /\ from = "enc64" /\ rng = WholeBuffer)
       => (value = x /\ ret = Len(mem) + 1)

C1_Witness ==
  /\ pc = "ptr32" /\ from = "enc32" /\ rng = WholeBuffer
  /\ Len(mem) = 5 /\ x = 0..31 /\ value = x /\ ret = 6

\* C2: the pointer decoders return NULL whenever limit is reached before a
\* byte with the high bit clear is found (the empty range and every proper
\* prefix of an encoding included), and never read at or beyond limit.
C2_Truncation ==
  pc \in {"ptr32", "ptr64"} =>
    /\ reads \subseteq rng.p..(rng.limit - 1)
    /\ Finals(rng.p, rng.limit) = {} => ret = NULL

C2_Witness ==
  /\ pc = "ptr32" /\ from = "enc32" /\ Len(mem) = 5
  /\ rng = [p |-> 1, limit |-> 5] /\ ret = NULL /\ reads = 1..4

\* C3: when GetVarint32/64 return true the view has been advanced past
\* exactly the bytes of the decoded varint (same end, size smaller by the
\* bytes consumed); when they return false the view is unchanged.
C3_CursorAdvance ==
  pc \in {"get32", "get64"} =>
    LET F == Finals(input0.data, input0.data + input0.size) IN
    IF ok
    THEN /\ F # {}
         /\ input.data = Least(F) + 1
         /\ input.data + input.size = input0.data + input0.size
         /\ input.size = input0.size - (Least(F) + 1 - input0.data)
    ELSE input = input0

C3_Witness ==
  /\ pc = "get64" /\ ok /\ from = "enc64" /\ Len(mem) = 10
  /\ input0 = SliceOf(1, 10) /\ input = SliceOf(11, 0)

\* C8: GetVarint32Ptr returns the same pointer and stores the same value as
\* GetVarint32PtrFallback on the same range; when p < limit and the first
\* byte is below 128 it stores that byte and returns p + 1.
C8_FastPathAgrees ==
  pc = "ptr32" =>
    /\ ret = fb.ptr /\ value = fb.value
    /\ (rng.p < rng.limit /\ mem[rng.p] < 128)
         => (ret = rng.p + 1 /\ value \subseteq 0..6 /\ SumPow2(value) = mem[rng.p])

C8_Witness ==
  /\ pc = "ptr32" /\ rng.p = 2 /\ rng.limit > 2 /\ mem[2] = 127
  /\ ret = 3 /\ value = 0..6

\* the payload bits of the k-th byte at p, at their place in the number
Payload(p, k) == {7 * k + j : j \in BitAnd(FromByte(mem[p + k]), Mask127)}

\* C10: five bytes, four with the continuation bit set and a fifth with it
\* clear, decode to the pointer past the fifth byte and the number reduced
\* modulo 2^32, whatever bits the fifth byte has above the 32-bit range;
\* the decoder fails only when none of the first five bytes below limit
\* has the continuation bit clear.
C10_FifthByteTruncated ==
  pc = "ptr32" =>
    LET p == rng.p
        n == rng.limit - rng.p IN
    /\ (ret = NULL) <=> ({k \in 0..4 : k < n /\ mem[p + k] < 128} = {})
    /\ (n >= 5 /\ (\A k \in 0..3 : mem[p + k] >= 128) /\ mem[p + 4] < 128)
         => /\ ret = p + 5
            /\ value = {i \in UNION {Payload(p, k) : k \in 0..4} : i < 32}

C10_Witness ==
  /\ pc = "ptr32" /\ rng.limit - rng.p >= 5
  /\ \A k \in 0..3 : mem[rng.p + k] = 255
  /\ mem[rng.p + 4] = 127
  /\ ret = rng.p + 5 /\ value = 0..31


(* ================ the length-prefixed string state machine ============ *)
\* the string of n bytes whose i-th byte is k * i (mod 256)
Str(n, k) == [i \in 1..n |-> (k * i) % 256]
Strs(maxLen) == {Str(n, k) : n \in 0..maxLen, k \in 1..MaxStrPat}

InitString == pc = "start" /\ little = TRUE /\ CodecIdle /\ SliceIdle /\ StatusIdle

\* PutLengthPrefixedSlice(&dst, S) on an empty dst
DoPutLengthPrefixedSlice ==
  /\ pc = "start"
  /\ \E S \in Strs(MaxStrLen) :
       mem' = mem \o PutLengthPrefixedSlice(S) /\ str' = S
  /\ from' = "lps" /\ pc' = "filled"
  /\ UNCHANGED << x, rng, ret, value, reads, fb, input, input0, result, ok,
                  removed, little, sliceVars, statusVars >>

\* a second PutLengthPrefixedSlice(&dst, T) after the first
DoPutSecond ==
  /\ pc = "filled" /\ from = "lps"
  /\ \E T \in Strs(MaxTailLen) : mem' = mem \o PutLengthPrefixedSlice(T)
  /\ from' = "lps2"
  /\ UNCHANGED << pc, x, str, rng, ret, value, reads, fb, input, input0, result,
                  ok, removed, little, sliceVars, statusVars >>

\* GetLengthPrefixedSlice(&input, &result) on a view of the first n bytes
DoGetLengthPrefixedSlice ==
  /\ pc = "filled"
  /\ \E n \in 0..Len(mem) :
       LET g == GetLengthPrefixedSlice(mem, SliceOf(1, n), result, value) IN
         /\ ok' = g.ok /\ input' = g.input /\ result' = g.result
         /\ input0' = SliceOf(1, n)
  /\ pc' = "getlps"
  /\ UNCHANGED << mem, x, str, from, rng, ret, value, reads, fb, removed, little,
                  sliceVars, statusVars >>

NextString ==
  \/ DoPutLengthPrefixedSlice
  \/ DoPutSecond
  \/ DoGetLengthPrefixedSlice

SpecString == InitString /\ [][NextString]_vars

\* C4: GetLengthPrefixedSlice on a view over the output of
\* PutLengthPrefixedSlice(S) returns true, yields a view of the bytes of S
\* inside the input storage and advances the input by exactly
\* VarintLength(len(S)) + len(S); it returns false when the length varint
\* does not decode or fewer than len(S) bytes remain after it.
C4_StringRoundTrip ==
  pc = "getlps" =>
    LET L == Len(str)
        vl == VarintLength(FromNat(L)) IN
    IF input0.size >= vl + L
    THEN /\ ok
         /\ result = SliceOf(input0.data + vl, L)
         /\ SliceBytes(mem, result) = str
         /\ input = SliceOf(input0.data + vl + L, input0.size - (vl + L))
    ELSE ~ok

C4_Witness ==
  /\ pc = "getlps" /\ ok /\ Len(str) = 128 /\ from = "lps2"
  /\ result = SliceOf(3, 128) /\ input.data = 131 /\ input.size > 0


(* ==================== the fixed-width state machine =================== *)
\* the build: port::kLittleEndian is true exactly on a little-endian host
InitFixed ==
  pc = "start" /\ little \in BOOLEAN /\ CodecIdle /\ SliceIdle /\ StatusIdle

\* EncodeFixed32(dst, v)
DoEncodeFixed32 ==
  /\ pc = "start"
  /\ \E v \in Vals(32) : mem' = EncodeFixed32(v) /\ x' = v
  /\ from' = "fix32" /\ pc' = "filled"
  /\ UNCHANGED << str, rng, ret, value, reads, fb, input, input0, result, ok,
                  removed, little, sliceVars, statusVars >>

\* EncodeFixed64(dst, v)
DoEncodeFixed64 ==
  /\ pc = "start"
  /\ \E v \in Vals(64) : mem' = EncodeFixed64(v) /\ x' = v
  /\ from' = "fix64" /\ pc' = "filled"
  /\ UNCHANGED << str, rng, ret, value, reads, fb, input, input0, result, ok,
                  removed, little, sliceVars, statusVars >>

\* the caller supplies 4 or 8 bytes
DoFillFixed ==
  /\ pc = "start"
  /\ \E bytes \in [1..4 -> ByteSet] \cup [1..8 -> ByteSet] : mem' = bytes
  /\ from' = "raw" /\ pc' = "filled"
  /\ UNCHANGED << x, str, rng, ret, value, reads, fb, input, input0, result, ok,
                  removed, little, sliceVars, statusVars >>

\* DecodeFixed32(ptr) on the first or the last 4 bytes
DoDecodeFixed32 ==
  /\ pc = "filled"
  /\ \E p \in {1, Len(mem) - 3} :
       /\ value' = DecodeFixed32(mem, p, little)
       /\ rng' = [p |-> p, limit |-> p + 4]
  /\ pc' = "dfix32"
  /\ UNCHANGED << mem, x, str, from, ret, reads, fb, input, input0, result, ok,
                  removed, little, sliceVars, statusVars >>

\* DecodeFixed64(ptr)
DoDecodeFixed64 ==
  /\ pc = "filled" /\ Len(mem) = 8
  /\ value' = DecodeFixed64(mem, 1, little)
  /\ rng' = [p |-> 1, limit |-> 9]
  /\ pc' = "dfix64"
  /\ UNCHANGED << mem, x, str, from, ret, reads, fb, input, input0, result, ok,
                  removed, little, sliceVars, statusVars >>

NextFixed ==
  \/ DoEncodeFixed32
  \/ DoEncodeFixed64
  \/ DoFillFixed
  \/ DoDecodeFixed32
  \/ DoDecodeFixed64

SpecFixed == InitFixed /\ [][NextFixed]_vars

\* bit i of the little-endian number held by the bytes at p
LittleEndianBit(p, i) == (mem[p + (i \div 8)] \div Pow2(i % 8)) % 2 = 1

\* C9: DecodeFixed32 returns byte0 + byte1*2^8 + byte2*2^16 + byte3*2^24 on
\* the raw-load branch and on the byte-assembly branch; DecodeFixed64
\* returns DecodeFixed32(first 4 bytes) + 2^32 * DecodeFixed32(last 4
\* bytes) on both; so both invert EncodeFixed32/64.
C9_FixedDecode ==
  /\ pc = "dfix32" =>
       /\ value = {i \in 0..31 : LittleEndianBit(rng.p, i)}
       /\ (from = "fix32") => value = x
  /\ pc = "dfix64" =>
       /\ value = {i \in 0..63 : LittleEndianBit(1, i)}
       /\ value = DecodeFixed32(mem, 1, little)
                    \cup {i + 32 : i \in DecodeFixed32(mem, 5, little)}
       /\ (from = "fix64") => value = x

C9_Witness ==
  /\ pc = "dfix64" /\ ~little /\ from = "raw"
  /\ mem = << 1, 127, 128, 255, 255, 128, 127, 1 >>
  /\ value = {0} \cup 8..14 \cup {23} \cup 24..39 \cup {47} \cup 48..54 \cup {56}


(* ======================== the Slice state machine ===================== *)
\* the external storage: the same bytes recur at different addresses, and
\* one byte is above 127
StorePat == << 97, 98, 200, 97 >>
Store == [i \in 1..StoreLen |-> StorePat[((i - 1) % 4) + 1]]

\* the Slices over the storage
Slices == {s \in {SliceOf(d, n) : d \in 1..(StoreLen + 1), n \in 0..StoreLen} :
             s.data + s.size <= StoreLen + 1}

InitSlice ==
  /\ pc = "start" /\ little = TRUE /\ SliceIdle /\ StatusIdle
  /\ mem = Store /\ x = {} /\ str = << >> /\ from = "store"
  /\ rng = [p |-> 1, limit |-> 1]
  /\ ret = NULL /\ value = Garbage /\ reads = {} /\ fb = NoResult
  /\ input = SliceEmpty /\ input0 = SliceEmpty /\ result = SliceEmpty
  /\ ok = FALSE /\ removed = 0

\* three Slices are constructed over the storage
DoSlices ==
  /\ pc = "start"
  /\ \E s \in Slices, t \in Slices, u \in Slices : a' = s /\ b' = t /\ c' = u
  /\ pc' = "slices"
  /\ UNCHANGED << codecVars, little, cmp, statusVars >>

\* compare, operator== and operator!= on them
DoCompare ==
  /\ pc = "slices"
  /\ cmp' = [ab |-> SliceCompare(mem, a, b), ba |-> SliceCompare(mem, b, a),
             bc |-> SliceCompare(mem, b, c), ac |-> SliceCompare(mem, a, c),
             eq |-> SliceEq(mem, a, b), ne |-> SliceNe(mem, a, b)]
  /\ pc' = "compared"
  /\ UNCHANGED << codecVars, little, a, b, c, statusVars >>

\* Slice(d, n) over a range of the storage
DoSliceOver ==
  /\ pc = "start"
  /\ \E s \in Slices : input' = s /\ input0' = s
  /\ pc' = "view"
  /\ UNCHANGED << mem, x, str, from, rng, ret, value, reads, fb, result, ok,
                  removed, little, sliceVars, statusVars >>

\* remove_prefix(n): the assert stops the program when n > size()
DoRemovePrefix ==
  /\ pc \in {"view", "cleared"}
  /\ \E n \in 0..(StoreLen + 1) :
       IF n <= input.size
       THEN /\ input' = RemovePrefix(input, n)
            /\ removed' = removed + n
            /\ pc' = pc
       ELSE /\ pc' = "aborted"
            /\ UNCHANGED << input, removed >>
  /\ UNCHANGED << mem, x, str, from, rng, ret, value, reads, fb, input0, result,
                  ok, little, sliceVars, statusVars >>

\* clear()
DoClear ==
  /\ pc = "view"
  /\ input' = SliceClear(input)
  /\ pc' = "cleared"
  /\ UNCHANGED << mem, x, str, from, rng, ret, value, reads, fb, input0, result,
                  ok, removed, little, sliceVars, statusVars >>

NextSlice ==
  \/ DoSlices
  \/ DoCompare
  \/ DoSliceOver
  \/ DoRemovePrefix
  \/ DoClear

SpecSlice == InitSlice /\ [][NextSlice]_vars

\* s sorts before t in the byte-wise lexicographic order
LexLess(s, t) ==
  \E i \in 1..(Len(s) + 1) :
    /\ i <= Len(t)
    /\ \A j \in 1..(i - 1) : s[j] = t[j]
    /\ (i = Len(s) + 1 \/ s[i] < t[i])

Sign(r) == IF r < 0 THEN -1 ELSE IF r > 0 THEN 1 ELSE 0

\* C5: the sign of a.compare(b) is the unsigned byte-wise lexicographic
\* order of the contents (first differing byte within the shared prefix,
\* else the shorter one first); compare is antisymmetric and transitive
\* and returns 0 exactly when operator== returns true (same length, same
\* bytes).
C5_CompareOrder ==
  pc = "compared" =>
    LET A == SliceBytes(mem, a)
        B == SliceBytes(mem, b) IN
    /\ (cmp.ab < 0) <=> LexLess(A, B)
    /\ (cmp.ab > 0) <=> LexLess(B, A)
    /\ Sign(cmp.ba) = 0 - Sign(cmp.ab)
    /\ (cmp.ab < 0 /\ cmp.bc < 0) => cmp.ac < 0
    /\ (cmp.ab = 0 /\ cmp.bc = 0) => cmp.ac = 0
    /\ (cmp.ab = 0) <=> cmp.eq
    /\ cmp.eq <=> (A = B)
    /\ cmp.ne <=> ~cmp.eq

C5_Witness ==
  /\ pc = "compared"
  /\ a = SliceOf(5, 2) /\ b = SliceOf(1, 3) /\ c = SliceOf(3, 1)
  /\ cmp.ab < 0 /\ cmp.bc < 0 /\ cmp.ac < 0 /\ cmp.ba > 0 /\ cmp.ne

\* C6: after any sequence of remove_prefix(n) calls with n <= size() the
\* Slice is a suffix of the range it was constructed over: data() + size()
\* is unchanged, size() is the original size less the sum of the n's, and
\* the bytes are not modified; clear() makes size() zero; a call with
\* n > size() stops at the assert and leaves no Slice with a wrapped size.
C6_SuffixInvariant ==
  /\ pc = "view" =>
       /\ input.data + input.size = input0.data + input0.size
       /\ input.size = input0.size - removed
       /\ input.data = input0.data + removed
  /\ pc = "cleared" => input.size = 0
  /\ pc \in {"view", "cleared", "aborted"} =>
       /\ input.size \in 0..input0.size
       /\ mem = Store

C6_Witness ==
  /\ pc = "view" /\ input0 = SliceOf(2, 5) /\ input = SliceOf(5, 2) /\ removed = 3


(* ======================= the Status state machine ===================== *)
\* enum Code
kOk == 0
kNotFound == 1
kCorruption == 2

Objs == 1..NumObj
\* the addresses operator new[] can return: one more than the objects need
Addrs == 1..(NumObj + 1)
Codes == {kNotFound, kCorruption}
Msgs == {"x", "y"}

\* a new[] array that has been deleted, and a Status that is not alive
Freed == [live |-> FALSE, code |-> kOk, msg |-> ""]
Gone == [live |-> FALSE, state |-> NULL]
Alive(ptr) == [live |-> TRUE, state |-> ptr]

\* operator new[]: any address that is not in use
FreeAddrs(hp) == {n \in Addrs : ~hp[n].live}

\* delete[] ptr
Delete(S, ptr) ==
  IF ptr = NULL THEN S
  ELSE IF S.heap[ptr].live THEN [S EXCEPT !.heap[ptr] = Freed]
  ELSE [S EXCEPT !.fault = @ \cup {"free of a freed array"}]

\* CopyState(s): a new array holding the length, code and message of s;
\* the outcomes, one per address new[] may return
CopyState(S, ptr) ==
  {[heap |-> [S.heap EXCEPT ![n] = [S.heap[ptr] EXCEPT !.live = TRUE]],
    addr |-> n,
    fault |-> S.fault \cup (IF S.heap[ptr].live THEN {}
                            ELSE {"read of a freed array"})] : n \in FreeAddrs(S.heap)}

\* code() and the message
Content(S, o) ==
  IF S.st[o].state = NULL THEN [code |-> kOk, msg |-> ""]
  ELSE [code |-> S.heap[S.st[o].state].code, msg |-> S.heap[S.st[o].state].msg]

\* Status()
StatusDefault(S, o) == [S EXCEPT !.st[o] = Alive(NULL)]

\* Status(code, msg, msg2)
StatusError(S, o, code, msg) ==
  {[S EXCEPT !.st[o] = Alive(n),
             !.heap[n] = [live |-> TRUE, code |-> code, msg |-> msg]] :
     n \in FreeAddrs(S.heap)}

\* ~Status()
StatusDestroy(S, o) == [Delete(S, S.st[o].state) EXCEPT !.st[o] = Gone]

\* Status(const Status& s)
StatusCopy(S, o, s) ==
  IF S.st[s].state = NULL THEN {[S EXCEPT !.st[o] = Alive(NULL)]}
  ELSE {[st |-> [S.st EXCEPT ![o] = Alive(r.addr)], heap |-> r.heap,
         fault |-> r.fault] : r \in CopyState(S, S.st[s].state)}

\* a mutant: the assignment without the test state_ != s.state_
StatusAssign_NoAliasTest(S, o, s) ==
  LET D == Delete(S, S.st[o].state) IN
  IF S.st[s].state = NULL THEN {[D EXCEPT !.st[o] = Alive(NULL)]}
  ELSE {[st |-> [D.st EXCEPT ![o] = Alive(r.addr)], heap |-> r.heap,
         fault |-> r.fault] : r \in CopyState(D, S.st[s].state)}

\* operator=(const Status& s)
StatusAssign(S, o, s) ==
  IF S.st[o].state # S.st[s].state
  THEN LET D == Delete(S, S.st[o].state) IN
       IF S.st[s].state = NULL THEN {[D EXCEPT !.st[o] = Alive(NULL)]}
       ELSE {[st |-> [D.st EXCEPT ![o] = Alive(r.addr)], heap |-> r.heap,
              fault |-> r.fault] : r \in CopyState(D, S.st[s].state)}
  ELSE {S}

Now == [st |-> st, heap |-> heap, fault |-> fault]
Becomes(S) == st' = S.st /\ heap' = S.heap /\ fault' = S.fault

InitStatus ==
  /\ pc = "start" /\ little = TRUE /\ CodecIdle /\ SliceIdle
  /\ st = [o \in Objs |-> Gone]
  /\ heap = [n \in Addrs |-> Freed]
  /\ fault = {}
  /\ last = [op |-> "none", dst |-> 1, src |-> 1,
             before |-> [code |-> kOk, msg |-> ""]]

\* Status s;  or  Status::OK()
DoStatusDefault ==
  /\ \E o \in Objs : ~st[o].live /\ Becomes(StatusDefault(Now, o))
  /\ last' = [last EXCEPT !.op = "none"]
  /\ pc' = "status"
  /\ UNCHANGED << codecVars, little, sliceVars >>

\* Status::NotFound(msg), Status::Corruption(msg)
DoStatusError ==
  /\ \E o \in Objs, code \in Codes, msg \in Msgs :
       /\ ~st[o].live
       /\ \E S \in StatusError(Now, o, code, msg) : Becomes(S)
  /\ last' = [last EXCEPT !.op = "none"]
  /\ pc' = "status"
  /\ UNCHANGED << codecVars, little, sliceVars >>

\* Status o(s)
DoStatusCopy ==
  /\ \E o \in Objs, s \in Objs :
       /\ ~st[o].live /\ st[s].live
       /\ \E S \in StatusCopy(Now, o, s) : Becomes(S)
       /\ last' = [op |-> "copy", dst |-> o, src |-> s, before |-> Content(Now, s)]
  /\ pc' = "status"
  /\ UNCHANGED << codecVars, little, sliceVars >>

\* o = s, the two possibly the same object
DoStatusAssign ==
  /\ \E o \in Objs, s \in Objs :
       /\ st[o].live /\ st[s].live
       /\ \E S \in StatusAssign(Now, o, s) : Becomes(S)
       /\ last' = [op |-> "assign", dst |-> o, src |-> s, before |-> Content(Now, s)]
  /\ pc' = "status"
  /\ UNCHANGED << codecVars, little, sliceVars >>

\* o goes out of scope
DoStatusDestroy ==
  /\ \E o \in Objs : st[o].live /\ Becomes(StatusDestroy(Now, o))
  /\ last' = [last EXCEPT !.op = "none"]
  /\ pc' = "status"
  /\ UNCHANGED << codecVars, little, sliceVars >>

NextStatus ==
  \/ DoStatusDefault
  \/ DoStatusError
  \/ DoStatusCopy
  \/ DoStatusAssign
  \/ DoStatusDestroy

SpecStatus == InitStatus /\ [][NextStatus]_vars

\* C7: after any sequence of constructions, copies, assignments (a = a and
\* OK = OK included) and destructions, no two live Status objects share a
\* non-null payload, every payload of a live object is allocated, nothing
\* has been freed twice or read after being freed, and after a = b both a
\* and b have the kind and message b had before.
C7_PayloadOwnership ==
  /\ fault = {}
  /\ \A o \in Objs : \A s \in Objs :
       (o # s /\ st[o].live /\ st[s].live /\ st[o].state # NULL)
         => st[o].state # st[s].state
  /\ \A o \in Objs : (st[o].live /\ st[o].state # NULL) => heap[st[o].state].live
  /\ last.op \in {"assign", "copy"} =>
       /\ st[last.dst].live /\ st[last.src].live
       /\ Content(Now, last.dst) = last.before
       /\ Content(Now, last.src) = last.before

C7_Witness ==
  /\ last.op = "assign" /\ last.dst = last.src
  /\ st[last.dst].live /\ st[last.dst].state # NULL
  /\ last.before = [code |-> kCorruption, msg |-> "y"]

=============================================================================
